---- MODULE Spec2Model ----
(***************************************************************************)
(* Wing - Smart Connections module (src/lib/connections.js).               *)
(*                                                                         *)
(* The model covers the connection store (the "connections" object store   *)
(* behind db.getConnectionBetween, db.createConnection, ...), the wing      *)
(* store, the relevance scorer and the exported operations of              *)
(* connections.js.  Every exported operation is one action that runs the   *)
(* whole async function to completion; the calls that run interleaved, one  *)
(* await at a time, are the tasks of the variable inflight.                *)
(*                                                                         *)
(* Numbers are exact rationals <<n, d>> (d > 0, lowest terms); NaN is the  *)
(* pair <<0, 0>>.  Texts are sequences of one-character strings.           *)
(***************************************************************************)
EXTENDS Integers, Sequences, FiniteSets, TLC

VARIABLES wings, connections, nextId, last, inflight

vars == <<wings, connections, nextId, last, inflight>>

(***************************************************************************)
(* Bounds of the model.                                                    *)
(***************************************************************************)
\* generateId() is called at most MaxId times in a behaviour.
MaxId == 2

(***************************************************************************)
(* Rational arithmetic.  The operations are functions, so their arguments  *)
(* are values.                                                             *)
(***************************************************************************)
Q == Int \X Int

Gcd[a \in Nat, b \in Nat] == IF b = 0 THEN a ELSE Gcd[b, a % b]

Abs(n) == IF n < 0 THEN -n ELSE n

Rat[n \in Int, d \in Int] ==
  LET g == Gcd[Abs(n), Abs(d)]
  IN  IF d < 0 THEN <<(-n) \div g, (-d) \div g>> ELSE <<n \div g, d \div g>>

Zero == <<0, 1>>
One == <<1, 1>>

RAdd[x \in Q, y \in Q] == Rat[x[1] * y[2] + y[1] * x[2], x[2] * y[2]]
RMul[x \in Q, y \in Q] == Rat[x[1] * y[1], x[2] * y[2]]
RDiv[x \in Q, y \in Q] == Rat[x[1] * y[2], x[2] * y[1]]
RLt[x \in Q, y \in Q] == x[1] * y[2] < y[1] * x[2]
RLe[x \in Q, y \in Q] == x[1] * y[2] <= y[1] * x[2]
RMin[x \in Q, y \in Q] == IF RLe[x, y] THEN x ELSE y

NaN == <<0, 0>>
IsNaN(x) == x[2] = 0

SumSeq[s \in Seq(Q)] == IF s = <<>> THEN Zero ELSE RAdd[Head(s), SumSeq[Tail(s)]]

\* F applied to the value of e.
With(e, F(_)) == CHOOSE r \in {F(v) : v \in {e}} : TRUE

(***************************************************************************)
(* JavaScript string functions on texts.                                   *)
(***************************************************************************)
Text == Seq(STRING)

Digits == {"0", "1", "2", "3", "4", "5", "6", "7", "8", "9"}

DigitVal(c) ==
  CASE c = "0" -> 0 [] c = "1" -> 1 [] c = "2" -> 2 [] c = "3" -> 3
    [] c = "4" -> 4 [] c = "5" -> 5 [] c = "6" -> 6 [] c = "7" -> 7
    [] c = "8" -> 8 [] c = "9" -> 9

WhiteSpace == {" ", "\n", "\t"}

TrimStart[s \in Text] ==
  IF s # <<>> /\ Head(s) \in WhiteSpace THEN TrimStart[Tail(s)] ELSE s

TrimEnd[s \in Text] ==
  IF s # <<>> /\ s[Len(s)] \in WhiteSpace
  THEN TrimEnd[SubSeq(s, 1, Len(s) - 1)]
  ELSE s

Trim(s) == TrimEnd[TrimStart[s]]

\* String.prototype.split(sep) for a one-character separator.
Split[s \in Text, sep \in STRING] ==
  IF \A i \in 1..Len(s) : s[i] # sep
  THEN <<s>>
  ELSE LET k == CHOOSE i \in 1..Len(s) :
                  s[i] = sep /\ \A j \in 1..(i - 1) : s[j] # sep
       IN  <<SubSeq(s, 1, k - 1)>> \o Split[SubSeq(s, k + 1, Len(s)), sep]

LowerChar(c) ==
  CASE c = "N" -> "n" [] c = "O" -> "o" [] c = "E" -> "e" [] OTHER -> c

ToLowerCase(s) == [i \in 1..Len(s) |-> LowerChar(s[i])]

\* The longest prefix of s made of digits.
DigitPrefix[s \in Text] ==
  IF s # <<>> /\ Head(s) \in Digits
  THEN <<Head(s)>> \o DigitPrefix[Tail(s)]
  ELSE <<>>

DigitsValue[ds \in Text] ==
  IF ds = <<>> THEN 0
  ELSE 10 * DigitsValue[SubSeq(ds, 1, Len(ds) - 1)] + DigitVal(ds[Len(ds)])

Pow10[k \in Nat] == IF k = 0 THEN 1 ELSE 10 * Pow10[k - 1]

\* The sign and the rest of a numeral: <<-1 or 1, text after the white space
\* and the sign>>.
Signed[s \in Text] ==
  IF s # <<>> /\ Head(s) = "-" THEN <<-1, Tail(s)>>
  ELSE IF s # <<>> /\ Head(s) = "+" THEN <<1, Tail(s)>>
  ELSE <<1, s>>

\* parseInt(text): leading white space, an optional sign, then decimal digits;
\* whatever follows the digits is ignored; NaN when there is no digit.
ParseInt[text \in Text] ==
  LET t  == Signed[TrimStart[text]]
      ds == DigitPrefix[t[2]]
  IN  IF ds = <<>> THEN NaN ELSE Rat[t[1] * DigitsValue[ds], 1]

\* The fraction digits of r, the text after the integer digits.
Fraction[r \in Text] ==
  IF r # <<>> /\ Head(r) = "." THEN DigitPrefix[Tail(r)] ELSE <<>>

\* parseFloat(text): leading white space, an optional sign, digits, an optional
\* fraction; whatever follows is ignored; NaN when no digit is read.
ParseFloat[text \in Text] ==
  LET t  == Signed[TrimStart[text]]
      ip == DigitPrefix[t[2]]
      fp == Fraction[SubSeq(t[2], Len(ip) + 1, Len(t[2]))]
  IN  IF ip = <<>> /\ fp = <<>> THEN NaN
      ELSE Rat[t[1] * (DigitsValue[ip] * Pow10[Len(fp)] + DigitsValue[fp]),
               Pow10[Len(fp)]]

(***************************************************************************)
(* The wings the user can save.  A wing's url is its hostname split at the *)
(* dots, or <<>> for a string that new URL() rejects; an absent summary is *)
(* the empty text.                                                         *)
(***************************************************************************)
WingIds == {1, 2, 3}

Wing(id) ==
  CASE id = 1 -> [id |-> 1, url |-> <<"blog", "example", "com">>,
                  summary |-> <<"s">>, collectionIds |-> <<"c1">>]
    [] id = 2 -> [id |-> 2, url |-> <<"docs", "example", "com">>,
                  summary |-> <<"s">>, collectionIds |-> <<"c1", "c2">>]
    [] id = 3 -> [id |-> 3, url |-> <<>>,
                  summary |-> <<>>, collectionIds |-> <<"c2">>]

\* The ids of s in increasing order (the key order of an object store).
RECURSIVE SortedIds(_)
SortedIds(s) ==
  IF s = {} THEN <<>>
  ELSE LET m == CHOOSE x \in s : \A y \in s : x <= y
       IN  <<m>> \o SortedIds(s \ {m})

(***************************************************************************)
(* Relevance scorer.                                                       *)
(***************************************************************************)
SCORE_THRESHOLD == Rat[3, 10]

Range(s) == {s[i] : i \in 1..Len(s)}

\* calculateCollectionProximity dividing by the smaller of the two lengths.
calculateCollectionProximity_MinLength(wing1, wing2) ==
  LET collections1 == wing1.collectionIds
      collections2 == wing2.collectionIds
      shared == SelectSeq(collections1, LAMBDA c : c \in Range(collections2))
      minCollections == IF Len(collections1) <= Len(collections2)
                        THEN Len(collections1) ELSE Len(collections2)
  IN  IF Len(collections1) = 0 \/ Len(collections2) = 0 THEN Zero
      ELSE IF Len(shared) = 0 THEN Zero
      ELSE Rat[Len(shared), minCollections]

calculateCollectionProximity(wing1, wing2) ==
  LET collections1 == wing1.collectionIds
      collections2 == wing2.collectionIds
      shared == SelectSeq(collections1, LAMBDA c : c \in Range(collections2))
      maxCollections == IF Len(collections1) >= Len(collections2)
                        THEN Len(collections1) ELSE Len(collections2)
  IN  IF Len(collections1) = 0 \/ Len(collections2) = 0 THEN Zero
      ELSE IF Len(shared) = 0 THEN Zero
      ELSE Rat[Len(shared), maxCollections]

\* getRootDomain without the slice of line 179: the hostname itself.
getRootDomain_WholeHostname(hostname) == hostname

getRootDomain(hostname) ==
  IF Len(hostname) <= 2 THEN hostname
  ELSE SubSeq(hostname, Len(hostname) - 1, Len(hostname))

calculateDomainSimilarity(wing1, wing2) ==
  IF wing1.url = <<>> \/ wing2.url = <<>> THEN Zero
  ELSE IF wing1.url = wing2.url THEN Rat[8, 10]
  ELSE IF getRootDomain(wing1.url) = getRootDomain(wing2.url) THEN Rat[5, 10]
  ELSE Zero

\* calculateSemanticSimilarity without the range test of line 207: any number
\* the reply parses to is returned.
calculateSemanticSimilarity_AnyNumber(reply) ==
  IF ~reply.ok THEN Zero
  ELSE LET score == ParseFloat[Trim(reply.text)]
       IN  IF IsNaN(score) THEN Zero ELSE score

\* A reply of makeApiRequest: ok = FALSE when the call throws.
calculateSemanticSimilarity(reply) ==
  IF ~reply.ok THEN Zero
  ELSE LET score == ParseFloat[Trim(reply.text)]
       IN  IF IsNaN(score) \/ RLt[score, Zero] \/ RLt[One, score]
           THEN Zero
           ELSE score

HasSummary(w) == w.summary # <<>>

calculateConnectionScore(wing1, wing2, reply) ==
  LET collectionScore == calculateCollectionProximity(wing1, wing2)
      domainScore == calculateDomainSimilarity(wing1, wing2)
      s1 == IF RLt[Zero, collectionScore] THEN <<collectionScore>> ELSE <<>>
      w1 == IF RLt[Zero, collectionScore] THEN <<Rat[20, 100]>> ELSE <<>>
      s2 == IF RLt[Zero, domainScore] THEN s1 \o <<domainScore>> ELSE s1
      w2 == IF RLt[Zero, domainScore] THEN w1 \o <<Rat[15, 100]>> ELSE w1
      both == HasSummary(wing1) /\ HasSummary(wing2)
      scores == IF both THEN s2 \o <<calculateSemanticSimilarity(reply)>> ELSE s2
      weights == IF both THEN w2 \o <<Rat[65, 100]>>
                 ELSE <<IF Len(w2) >= 1 THEN RMul[w2[1], Rat[2, 1]] ELSE Zero,
                        IF Len(w2) >= 2 THEN RMul[w2[2], Rat[2, 1]] ELSE Zero>>
      totalWeight == SumSeq[weights]
      weightedSum == SumSeq[[i \in 1..Len(scores) |-> RMul[scores[i], weights[i]]]]
  IN  IF Len(scores) = 0 THEN Zero
      ELSE RMin[One, RDiv[weightedSum, totalWeight]]

(***************************************************************************)
(* The record store's connection operations of lib/db.js.  A               *)
(* connection is [id, wingId1, wingId2, score, type]; the store is keyed   *)
(* by id.                                                                  *)
(***************************************************************************)
SEMANTIC == "semantic"
COLLECTION == "collection"
MANUAL == "manual"

Joins(c, id1, id2) ==
  \/ c.wingId1 = id1 /\ c.wingId2 = id2
  \/ c.wingId1 = id2 /\ c.wingId2 = id1

\* db.getConnectionBetween(id1, id2) returns one of these, or undefined when
\* the set is empty.
getConnectionBetween(store, id1, id2) == {c \in store : Joins(c, id1, id2)}

getConnectionsForWing(store, wingId) ==
  {c \in store : c.wingId1 = wingId \/ c.wingId2 = wingId}

createConnection(store, connection) == store \cup {connection}

updateConnection(store, id, type, score) ==
  {IF c.id = id THEN [c EXCEPT !.type = type, !.score = score] ELSE c : c \in store}

deleteConnection(store, id) == {c \in store : c.id # id}

deleteConnectionsForWing(store, wingId) == store \ getConnectionsForWing(store, wingId)

batchUpsertConnections(store, list) ==
  {c \in store : \A i \in 1..Len(list) : list[i].id # c.id} \cup Range(list)

(***************************************************************************)
(* A reply of the external text-generation call (makeApiRequest).          *)
(***************************************************************************)
Reply(text) == [ok |-> TRUE, text |-> text]
Failure == [ok |-> FALSE, text |-> <<>>]

(***************************************************************************)
(* Inputs: what the external call answers and what the callers pass.       *)
(***************************************************************************)
\* Per-pair replies: "0.75", " 0.1\n", "1.5", "-1", or a failed call.
PairReplies ==
  { Reply(<<"0", ".", "7", "5">>),
    Reply(<<" ", "0", ".", "1", "\n">>),
    Reply(<<"1", ".", "5">>),
    Reply(<<"-", "1">>),
    Failure }

\* Batched replies:
\*   "0,1,0.5"
\*   "0,1\n1, 0, 1.5"
\*   "0,0,0.5"
\*   "0,1,0.5\n1,0,0.5"
\*   "None\n0,1,0.5"
\*   "x,1,0.5\n0,7,0.5\n0,1,0.2\n0,1,-1"
\* or a failed call.
BatchReplies ==
  { Reply(<<"0", ",", "1", ",", "0", ".", "5">>),
    Reply(<<"0", ",", "1", "\n", "1", ",", " ", "0", ",", " ", "1", ".", "5">>),
    Reply(<<"0", ",", "0", ",", "0", ".", "5">>),
    Reply(<<"0", ",", "1", ",", "0", ".", "5", "\n",
            "1", ",", "0", ",", "0", ".", "5">>),
    Reply(<<"N", "o", "n", "e", "\n", "0", ",", "1", ",", "0", ".", "5">>),
    Reply(<<"x", ",", "1", ",", "0", ".", "5", "\n",
            "0", ",", "7", ",", "0", ".", "5", "\n",
            "0", ",", "1", ",", "0", ".", "2", "\n",
            "0", ",", "1", ",", "-", "1">>),
    Failure }

\* The input lists of batchAnalyzeConnections.
BatchInputs ==
  {<<>>, <<1>>, <<3>>, <<1, 2>>, <<1, 3>>, <<2, 2>>, <<2, 3>>, <<1, 2, 3>>}

\* The scores of every pair and reply, computed once: ConnectionScore is
\* calculateConnectionScore, NonSemanticScore the combined score of the
\* collection and domain pass (lines 259-261).
ConnectionScore ==
  [id1 \in WingIds, id2 \in WingIds, reply \in PairReplies |->
     calculateConnectionScore(Wing(id1), Wing(id2), reply)]

combinedScore(wing1, wing2) ==
  RAdd[RMul[calculateCollectionProximity(wing1, wing2), Rat[6, 10]],
       RMul[calculateDomainSimilarity(wing1, wing2), Rat[4, 10]]]

NonSemanticScore ==
  [id1 \in WingIds, id2 \in WingIds |-> combinedScore(Wing(id1), Wing(id2))]

(***************************************************************************)
(* connections.js: the analyses as functions of the store.                 *)
(***************************************************************************)
\* Accepted with the test "score > 0" in place of "score >= SCORE_THRESHOLD".
Accepted_Positive(score) == RLt[Zero, score]

Accepted(score) == RLe[SCORE_THRESHOLD, score]

\* AlreadyConnected without the lookup: no pair is ever skipped.
AlreadyConnected_Never(store, id1, id2) == FALSE

\* Lines 47-48: the pair is skipped when the store already connects it.
AlreadyConnected(store, id1, id2) == getConnectionBetween(store, id1, id2) # {}

NeedsCall(wing1, wing2) == HasSummary(wing1) /\ HasSummary(wing2)

\* AnalyzeStep that scores a connected pair again and writes the new score and
\* kind semantic into the connection it found, instead of skipping the pair.
AnalyzeStep_Rescores(newWing, otherWing, nid, replies, acc) ==
  LET called == NeedsCall(newWing, otherWing)
      reply == IF called THEN replies[otherWing.id] ELSE Failure
      score == ConnectionScore[newWing.id, otherWing.id, reply]
      existing == getConnectionBetween(acc.store, newWing.id, otherWing.id)
      connection == [id |-> nid + Len(acc.created),
                     wingId1 |-> newWing.id,
                     wingId2 |-> otherWing.id,
                     score |-> score,
                     type |-> SEMANTIC]
  IN  IF existing # {}
      THEN [acc EXCEPT !.store = {IF c \in existing
                                  THEN [c EXCEPT !.type = SEMANTIC, !.score = score]
                                  ELSE c : c \in acc.store}]
      ELSE IF Accepted(score)
      THEN [store |-> createConnection(acc.store, connection),
            created |-> Append(acc.created, connection),
            calls |-> acc.calls]
      ELSE acc

\* AnalyzeStep that names the kind after the signals that were computed:
\* collection when no external call was made for the pair.
AnalyzeStep_KindBySignals(newWing, otherWing, nid, replies, acc) ==
  IF AlreadyConnected(acc.store, newWing.id, otherWing.id) THEN acc
  ELSE
    LET called == NeedsCall(newWing, otherWing)
        reply == IF called THEN replies[otherWing.id] ELSE Failure
        score == ConnectionScore[newWing.id, otherWing.id, reply]
        calls == IF called THEN acc.calls \cup {<<otherWing.id, reply>>}
                 ELSE acc.calls
        connection == [id |-> nid + Len(acc.created),
                       wingId1 |-> newWing.id,
                       wingId2 |-> otherWing.id,
                       score |-> score,
                       type |-> IF called THEN SEMANTIC ELSE COLLECTION]
    IN  IF Accepted(score)
        THEN [store |-> createConnection(acc.store, connection),
              created |-> Append(acc.created, connection),
              calls |-> calls]
        ELSE [acc EXCEPT !.calls = calls]

\* AnalyzeStep scoring the pair, external call included, before it looks for
\* a connection of the pair.
AnalyzeStep_ScoresBeforeCheck(newWing, otherWing, nid, replies, acc) ==
  LET called == NeedsCall(newWing, otherWing)
      reply == IF called THEN replies[otherWing.id] ELSE Failure
      score == ConnectionScore[newWing.id, otherWing.id, reply]
      calls == IF called THEN acc.calls \cup {<<otherWing.id, reply>>}
               ELSE acc.calls
      connection == [id |-> nid + Len(acc.created),
                     wingId1 |-> newWing.id,
                     wingId2 |-> otherWing.id,
                     score |-> score,
                     type |-> SEMANTIC]
  IN  IF AlreadyConnected(acc.store, newWing.id, otherWing.id)
      THEN [acc EXCEPT !.calls = calls]
      ELSE IF Accepted(score)
      THEN [store |-> createConnection(acc.store, connection),
            created |-> Append(acc.created, connection),
            calls |-> calls]
      ELSE [acc EXCEPT !.calls = calls]

\* One turn of the loop of analyzeConnectionsForWing (lines 42-66); acc is
\* [store, created, calls], ids are given out from nid on.
AnalyzeStep(newWing, otherWing, nid, replies, acc) ==
  IF AlreadyConnected(acc.store, newWing.id, otherWing.id) THEN acc
  ELSE
    LET called == NeedsCall(newWing, otherWing)
        reply == IF called THEN replies[otherWing.id] ELSE Failure
        score == ConnectionScore[newWing.id, otherWing.id, reply]
        calls == IF called THEN acc.calls \cup {<<otherWing.id, reply>>}
                 ELSE acc.calls
        connection == [id |-> nid + Len(acc.created),
                       wingId1 |-> newWing.id,
                       wingId2 |-> otherWing.id,
                       score |-> score,
                       type |-> SEMANTIC]
    IN  IF Accepted(score)
        THEN [store |-> createConnection(acc.store, connection),
              created |-> Append(acc.created, connection),
              calls |-> calls]
        ELSE [acc EXCEPT !.calls = calls]

\* AnalyzeLoop that a failed call ends: the failure is not caught for the
\* pair but by the catch around the loop, which returns the empty list.
RECURSIVE AnalyzeLoop_StopsAtFailure(_, _, _, _, _)
AnalyzeLoop_StopsAtFailure(newWing, otherWings, nid, replies, acc) ==
  IF otherWings = <<>> THEN acc
  ELSE IF /\ ~AlreadyConnected(acc.store, newWing.id, Head(otherWings))
          /\ NeedsCall(newWing, Wing(Head(otherWings)))
          /\ ~replies[Head(otherWings)].ok
       THEN [acc EXCEPT !.created = <<>>,
                        !.calls = @ \cup {<<Head(otherWings), Failure>>}]
       ELSE With(AnalyzeStep(newWing, Wing(Head(otherWings)), nid, replies, acc),
                 LAMBDA next : AnalyzeLoop_StopsAtFailure(newWing, Tail(otherWings),
                                                          nid, replies, next))

RECURSIVE AnalyzeLoop(_, _, _, _, _)
AnalyzeLoop(newWing, otherWings, nid, replies, acc) ==
  IF otherWings = <<>> THEN acc
  ELSE With(AnalyzeStep(newWing, Wing(Head(otherWings)), nid, replies, acc),
            LAMBDA next : AnalyzeLoop(newWing, Tail(otherWings), nid, replies, next))

\* analyzeConnectionsForWing(newWing) run on the wing store allWings and the
\* connection store: [store, created, calls] when it returns.
AnalyzeRun(newWing, allWings, store, nid, replies) ==
  With(<<SelectSeq(SortedIds(allWings), LAMBDA w : w # newWing.id),
         [store |-> store, created |-> <<>>, calls |-> {}]>>,
       LAMBDA start : AnalyzeLoop(newWing, start[1], nid, replies, start[2]))

\* One line of the batched reply: <<>> when the line is skipped, else the
\* connection it yields (lines 318-344).
Parts[line \in Text] ==
  LET fields == Split[line, ","]
  IN  [i \in 1..Len(fields) |-> Trim(fields[i])]

\* BatchLine without the test score >= SCORE_THRESHOLD of line 333.
BatchLine_NoThreshold(ws, line, id) ==
  LET parts == Parts[line]
  IN  IF Len(parts) # 3 THEN <<>>
      ELSE
        LET idx1 == ParseInt[parts[1]]
            idx2 == ParseInt[parts[2]]
            score == ParseFloat[parts[3]]
        IN  IF \/ IsNaN(idx1) \/ IsNaN(idx2) \/ IsNaN(score)
               \/ idx1[1] < 0 \/ idx2[1] < 0
               \/ idx1[1] >= Len(ws) \/ idx2[1] >= Len(ws)
            THEN <<>>
            ELSE <<[id |-> id,
                    wingId1 |-> ws[idx1[1] + 1].id,
                    wingId2 |-> ws[idx2[1] + 1].id,
                    score |-> RMin[One, score],
                    type |-> SEMANTIC]>>

\* BatchLine without Math.min(1, score).
BatchLine_NoClamp(ws, line, id) ==
  LET parts == Parts[line]
  IN  IF Len(parts) # 3 THEN <<>>
      ELSE
        LET idx1 == ParseInt[parts[1]]
            idx2 == ParseInt[parts[2]]
            score == ParseFloat[parts[3]]
        IN  IF \/ IsNaN(idx1) \/ IsNaN(idx2) \/ IsNaN(score)
               \/ idx1[1] < 0 \/ idx2[1] < 0
               \/ idx1[1] >= Len(ws) \/ idx2[1] >= Len(ws)
               \/ RLt[score, SCORE_THRESHOLD]
            THEN <<>>
            ELSE <<[id |-> id,
                    wingId1 |-> ws[idx1[1] + 1].id,
                    wingId2 |-> ws[idx2[1] + 1].id,
                    score |-> score,
                    type |-> SEMANTIC]>>

BatchLine(ws, line, id) ==
  LET parts == Parts[line]
  IN  IF Len(parts) # 3 THEN <<>>
      ELSE
        LET idx1 == ParseInt[parts[1]]
            idx2 == ParseInt[parts[2]]
            score == ParseFloat[parts[3]]
        IN  IF \/ IsNaN(idx1) \/ IsNaN(idx2) \/ IsNaN(score)
               \/ idx1[1] < 0 \/ idx2[1] < 0
               \/ idx1[1] >= Len(ws) \/ idx2[1] >= Len(ws)
               \/ RLt[score, SCORE_THRESHOLD]
            THEN <<>>
            ELSE <<[id |-> id,
                    wingId1 |-> ws[idx1[1] + 1].id,
                    wingId2 |-> ws[idx2[1] + 1].id,
                    score |-> RMin[One, score],
                    type |-> SEMANTIC]>>

\* BatchLines2Connections leaving the loop at the first line it skips.
RECURSIVE BatchLines2Connections_StopsAtSkippedLine(_, _, _, _)
BatchLines2Connections_StopsAtSkippedLine(ws, lines, nid, found) ==
  IF lines = <<>> THEN found
  ELSE IF ToLowerCase(Head(lines)) = <<"n", "o", "n", "e">> THEN found
  ELSE IF BatchLine(ws, Head(lines), nid + Len(found)) = <<>> THEN found
  ELSE BatchLines2Connections_StopsAtSkippedLine(ws, Tail(lines), nid,
         found \o BatchLine(ws, Head(lines), nid + Len(found)))

RECURSIVE BatchLines2Connections(_, _, _, _)
BatchLines2Connections(ws, lines, nid, found) ==
  IF lines = <<>> THEN found
  ELSE IF ToLowerCase(Head(lines)) = <<"n", "o", "n", "e">> THEN found
  ELSE BatchLines2Connections(ws, Tail(lines), nid,
         found \o BatchLine(ws, Head(lines), nid + Len(found)))

\* batchSemanticAnalysis(wings): the found it returns.
batchSemanticAnalysis(ws, reply, nid) ==
  IF Len(ws) < 2 THEN <<>>
  ELSE IF ~reply.ok THEN <<>>
  ELSE BatchLines2Connections(ws, Split[Trim(reply.text), "\n"], nid, <<>>)

\* batchSemanticAnalysis for every input list, reply and first id, computed
\* once.
WingsOf(ids) == [i \in 1..Len(ids) |-> Wing(ids[i])]

BatchSemantic ==
  [ids \in BatchInputs, reply \in BatchReplies, nid \in 1..(MaxId + 1) |->
     batchSemanticAnalysis(SelectSeq(WingsOf(ids), HasSummary), reply, nid)]

\* The index pairs (i, j), i < j, in the order of the nested loops.
RECURSIVE PairSeq(_, _, _)
PairSeq(i, j, n) ==
  IF i >= n THEN <<>>
  ELSE IF j > n THEN PairSeq(i + 1, i + 2, n)
  ELSE <<<<i, j>>>> \o PairSeq(i, j + 1, n)

\* CollectionStep without the inBatch test of lines 251-256.
CollectionStep_IgnoresBatch(wing1, wing2, store, nid, found) ==
  LET score == NonSemanticScore[wing1.id, wing2.id]
      connection == [id |-> nid + Len(found),
                     wingId1 |-> wing1.id,
                     wingId2 |-> wing2.id,
                     score |-> score,
                     type |-> COLLECTION]
  IN  IF AlreadyConnected(store, wing1.id, wing2.id) THEN found
      ELSE IF Accepted(score) THEN Append(found, connection)
      ELSE found

\* One turn of the collection and domain pass of batchAnalyzeConnections
\* (lines 243-273) for the wings wing1 and wing2.
CollectionStep(wing1, wing2, store, nid, found) ==
  LET inBatch == \E k \in 1..Len(found) : Joins(found[k], wing1.id, wing2.id)
      score == NonSemanticScore[wing1.id, wing2.id]
      connection == [id |-> nid + Len(found),
                     wingId1 |-> wing1.id,
                     wingId2 |-> wing2.id,
                     score |-> score,
                     type |-> COLLECTION]
  IN  IF AlreadyConnected(store, wing1.id, wing2.id) \/ inBatch THEN found
      ELSE IF Accepted(score) THEN Append(found, connection)
      ELSE found

RECURSIVE CollectionPass(_, _, _, _, _)
CollectionPass(ws, pairs, store, nid, found) ==
  IF pairs = <<>> THEN found
  ELSE With(CollectionStep(ws[Head(pairs)[1]], ws[Head(pairs)[2]], store, nid, found),
            LAMBDA next : CollectionPass(ws, Tail(pairs), store, nid, next))

\* BatchRun without the length tests of lines 225, 231 and 290: a list with
\* one summary is sent to the external call and the reply is read.
BatchRun_NoLengthTests(ids, store, nid, reply) ==
  LET ws == WingsOf(ids)
      withSummaries == SelectSeq(ws, HasSummary)
      called == Len(withSummaries) >= 1
      batchConnections ==
        IF called /\ reply.ok
        THEN BatchLines2Connections(withSummaries, Split[Trim(reply.text), "\n"],
                                    nid, <<>>)
        ELSE <<>>
  IN  With(CollectionPass(ws, PairSeq(1, 2, Len(ws)), store, nid, batchConnections),
           LAMBDA found :
             [store |-> IF Len(found) > 0
                        THEN batchUpsertConnections(store, found)
                        ELSE store,
              created |-> found,
              calls |-> IF called THEN {<<0, reply>>} ELSE {}])

\* BatchRun that stops when the batched call fails: it returns the empty list
\* without the collection and domain pass.
BatchRun_FailureAborts(ids, store, nid, reply) ==
  LET ws == WingsOf(ids)
      called == Len(ws) >= 2 /\ Len(SelectSeq(ws, HasSummary)) >= 2
      batchConnections == IF called THEN BatchSemantic[ids, reply, nid] ELSE <<>>
  IN  IF Len(ws) < 2
      THEN [store |-> store, created |-> <<>>, calls |-> {}]
      ELSE IF called /\ ~reply.ok
      THEN [store |-> store, created |-> <<>>, calls |-> {<<0, reply>>}]
      ELSE With(CollectionPass(ws, PairSeq(1, 2, Len(ws)), store, nid, batchConnections),
                LAMBDA found :
                  [store |-> IF Len(found) > 0
                             THEN batchUpsertConnections(store, found)
                             ELSE store,
                   created |-> found,
                   calls |-> IF called THEN {<<0, reply>>} ELSE {}])

\* BatchRun making the external call once for every pair of the list in
\* place of the one batched call.
BatchRun_CallsPerPair(ids, store, nid, reply) ==
  LET ws == WingsOf(ids)
      called == Len(ws) >= 2 /\ Len(SelectSeq(ws, HasSummary)) >= 2
      batchConnections == IF called THEN BatchSemantic[ids, reply, nid] ELSE <<>>
  IN  IF Len(ws) < 2
      THEN [store |-> store, created |-> <<>>, calls |-> {}]
      ELSE With(CollectionPass(ws, PairSeq(1, 2, Len(ws)), store, nid, batchConnections),
                LAMBDA found :
                  [store |-> IF Len(found) > 0
                             THEN batchUpsertConnections(store, found)
                             ELSE store,
                   created |-> found,
                   calls |-> IF called
                             THEN {<<p, reply>> : p \in Range(PairSeq(1, 2, Len(ws)))}
                             ELSE {}])

\* batchAnalyzeConnections(wings): [store, created, calls] when it returns.
BatchRun(ids, store, nid, reply) ==
  LET ws == WingsOf(ids)
      called == Len(ws) >= 2 /\ Len(SelectSeq(ws, HasSummary)) >= 2
      batchConnections == IF called THEN BatchSemantic[ids, reply, nid] ELSE <<>>
  IN  IF Len(ws) < 2
      THEN [store |-> store, created |-> <<>>, calls |-> {}]
      ELSE With(CollectionPass(ws, PairSeq(1, 2, Len(ws)), store, nid, batchConnections),
                LAMBDA found :
                  [store |-> IF Len(found) > 0
                             THEN batchUpsertConnections(store, found)
                             ELSE store,
                   created |-> found,
                   calls |-> IF called THEN {<<0, reply>>} ELSE {}])

\* RefreshRun without db.deleteConnectionsForWing (line 442).
RefreshRun_NoPurge(wingId, allWings, store, nid, replies) ==
  IF wingId \notin allWings
  THEN [store |-> store, created |-> <<>>, calls |-> {}]
  ELSE AnalyzeRun(Wing(wingId), allWings, store, nid, replies)

\* refreshConnections(wingId): [store, created, calls] when it returns.
RefreshRun(wingId, allWings, store, nid, replies) ==
  LET purged == deleteConnectionsForWing(store, wingId)
  IN  IF wingId \notin allWings
      THEN [store |-> purged, created |-> <<>>, calls |-> {}]
      ELSE AnalyzeRun(Wing(wingId), allWings, purged, nid, replies)

\* createManualConnection(wingId1, wingId2): the possible outcomes
\* [store, ret, created], one for each connection getConnectionBetween can
\* return; created tells whether generateId was called.
ManualRuns(store, nid, wingId1, wingId2) ==
  LET existing == getConnectionBetween(store, wingId1, wingId2)
      connection == [id |-> nid, wingId1 |-> wingId1, wingId2 |-> wingId2,
                     score |-> One, type |-> MANUAL]
  IN  IF existing # {}
      THEN {[store |-> updateConnection(store, e.id, MANUAL, One),
             ret |-> [e EXCEPT !.type = MANUAL, !.score = One],
             created |-> FALSE] : e \in existing}
      ELSE {[store |-> createConnection(store, connection),
             ret |-> connection,
             created |-> TRUE]}

\* RemoveRuns answering true without looking at what it found.
RemoveRuns_AlwaysTrue(store, wingId1, wingId2) ==
  LET existing == getConnectionBetween(store, wingId1, wingId2)
  IN  IF existing # {}
      THEN {[store |-> deleteConnection(store, e.id), ret |-> TRUE] : e \in existing}
      ELSE {[store |-> store, ret |-> TRUE]}

\* removeConnection(wingId1, wingId2): the possible outcomes [store, ret].
RemoveRuns(store, wingId1, wingId2) ==
  LET existing == getConnectionBetween(store, wingId1, wingId2)
  IN  IF existing # {}
      THEN {[store |-> deleteConnection(store, e.id), ret |-> TRUE] : e \in existing}
      ELSE {[store |-> store, ret |-> FALSE]}

(***************************************************************************)
(* The read-only operations.                                               *)
(***************************************************************************)
\* The lists that hold each element of the set S once: the store does not
\* fix the order in which db.getConnectionsForWing returns its records.
Orderings(S) ==
  {f \in [1..Cardinality(S) -> S] : \A c \in S : \E i \in DOMAIN f : f[i] = c}

\* connections.find(c => c.wingId1 === id || c.wingId2 === id): the first
\* record of the list that touches id.
FindTouching(conns, id) ==
  conns[CHOOSE i \in 1..Len(conns) :
          /\ conns[i].wingId1 = id \/ conns[i].wingId2 = id
          /\ \A j \in 1..(i - 1) : conns[j].wingId1 # id /\ conns[j].wingId2 # id]

\* The entry pushed for the related wing id (lines 420-428).
RelatedEntry(conns, id) ==
  LET wing == Wing(id)
      conn == FindTouching(conns, id)
  IN  [id |-> wing.id, url |-> wing.url, summary |-> wing.summary,
       collectionIds |-> wing.collectionIds,
       connectionScore |-> conn.score,
       connectionType |-> conn.type,
       connectionId |-> conn.id]

\* relatedWings.sort((a, b) => b.connectionScore - a.connectionScore): a
\* stable sort, entries of equal score keep their order.
InsertByScore(sorted, e) ==
  LET ahead == {i \in 1..Len(sorted) : RLe[e.connectionScore, sorted[i].connectionScore]}
      k == IF ahead = {} THEN 0 ELSE CHOOSE i \in ahead : \A j \in ahead : j <= i
  IN  SubSeq(sorted, 1, k) \o <<e>> \o SubSeq(sorted, k + 1, Len(sorted))

\* SortByScore leaving the list in the order of the store.
SortByScore_Unsorted(list) == list

RECURSIVE SortByScore(_)
SortByScore(list) ==
  IF Len(list) = 0 THEN <<>>
  ELSE InsertByScore(SortByScore(SubSeq(list, 1, Len(list) - 1)), list[Len(list)])

\* getRelatedWings(wingId) on the list conns that db.getConnectionsForWing
\* has returned: the list it returns.
RelatedList(conns, allWings, wingId) ==
  LET relatedWingIds == [i \in 1..Len(conns) |->
                           IF conns[i].wingId1 = wingId THEN conns[i].wingId2
                           ELSE conns[i].wingId1]
      found == SelectSeq(relatedWingIds, LAMBDA id : id \in allWings)
      relatedWings == [i \in 1..Len(found) |-> RelatedEntry(conns, found[i])]
  IN  IF Len(conns) = 0 THEN <<>> ELSE SortByScore(relatedWings)

\* getRelatedWings(wingId): the lists it can return.
RelatedRuns(store, allWings, wingId) ==
  {RelatedList(conns, allWings, wingId) :
     conns \in Orderings(getConnectionsForWing(store, wingId))}

HIGH_SCORE_THRESHOLD == Rat[7, 10]

\* db.getAllConnections(): the records in key order.
getAllConnections(store) ==
  LET ids == SortedIds({c.id : c \in store})
  IN  [i \in 1..Len(ids) |-> CHOOSE c \in store : c.id = ids[i]]

\* StatsRun without the test connections.length > 0 of line 461: the
\* division 0 / 0 gives NaN.
StatsRun_NoEmptyTest(store, allWings) ==
  LET conns == getAllConnections(store)
      total == SumSeq[[i \in 1..Len(conns) |-> conns[i].score]]
  IN  [totalConnections |-> Len(conns),
       totalWings |-> Cardinality(allWings),
       averageScore |-> IF Len(conns) > 0 THEN RDiv[total, Rat[Len(conns), 1]]
                        ELSE NaN,
       highScoreConnections |->
         Cardinality({i \in 1..Len(conns) : RLe[HIGH_SCORE_THRESHOLD, conns[i].score]}),
       connectionsByType |->
         [t \in {c.type : c \in store} |-> Cardinality({c \in store : c.type = t})]]

\* getConnectionStats(): the object it returns.
StatsRun(store, allWings) ==
  LET conns == getAllConnections(store)
      total == SumSeq[[i \in 1..Len(conns) |-> conns[i].score]]
  IN  [totalConnections |-> Len(conns),
       totalWings |-> Cardinality(allWings),
       averageScore |-> IF Len(conns) > 0 THEN RDiv[total, Rat[Len(conns), 1]]
                        ELSE Zero,
       highScoreConnections |->
         Cardinality({i \in 1..Len(conns) : RLe[HIGH_SCORE_THRESHOLD, conns[i].score]}),
       connectionsByType |->
         [t \in {c.type : c \in store} |-> Cardinality({c \in store : c.type = t})]]

(***************************************************************************)
(* Inputs of the actions.                                                  *)
(***************************************************************************)
\* The wings analyzeConnectionsForWing(Wing(id)) can make an external call for.
CallTargets(id) ==
  {w \in WingIds \ {id} : HasSummary(Wing(id)) /\ HasSummary(Wing(w))}

\* The replies of the external call to one run of analyzeConnectionsForWing.
AnalyzeReplies(id) == [CallTargets(id) -> PairReplies]

\* The replies of the external call to batchAnalyzeConnections on the wings
\* ids: the call is made only when two of them have a summary.
BatchRepliesFor(ids) ==
  IF Len(SelectSeq(WingsOf(ids), HasSummary)) >= 2 THEN BatchReplies ELSE {Failure}

\* The argument pairs of createManualConnection: a wing with itself, a pair
\* in both orders, and a pair with the wing that has no summary.
ManualInputs == {<<1, 1>>, <<1, 2>>, <<2, 1>>, <<2, 3>>}

(***************************************************************************)
(* State.  wings: the ids in the wing store; connections: the connection   *)
(* store; nextId: the next value of generateId(); last: the call that      *)
(* completed last, [op, n, failed], n being the number of connections it   *)
(* returned (for removeConnection: 1 for true, 0 for false) and failed     *)
(* telling whether an external call it made has failed; inflight: for each *)
(* task the call it is running and the await it is suspended at.           *)
(***************************************************************************)
Outcome(op, n, calls) ==
  [op |-> op, n |-> n, failed |-> \E c \in calls : ~c[2].ok]

Done(op, n) == Outcome(op, n, {})

\* The calls in flight: a task is idle, or the record of a call that has
\* started and not returned to be looked at yet.
TaskIds == {"t1", "t2"}

Idle == [pc |-> "idle"]

\* Both stores are empty; saving a wing is not an operation of
\* connections.js, the wings are saved by createWing.
Init ==
  /\ wings = {}
  /\ connections = {}
  /\ nextId = 1
  /\ last = Done("init", 0)
  /\ inflight = [t \in TaskIds |-> Idle]

\* Wing ids are generated in increasing order, so a new wing gets the next id.
createWing(id) ==
  /\ id \notin wings
  /\ \A w \in WingIds : w < id => w \in wings
  /\ wings' = wings \cup {id}
  /\ last' = Done("createWing", 0)
  /\ UNCHANGED <<connections, nextId, inflight>>

analyzeConnectionsForWing(id, replies) ==
  \E r \in {AnalyzeRun(Wing(id), wings, connections, nextId, replies)} :
      /\ id \in wings
      /\ nextId + Len(r.created) <= MaxId + 1
      /\ connections' = r.store
      /\ nextId' = nextId + Len(r.created)
      /\ last' = Outcome("analyze", Len(r.created), r.calls)
      /\ UNCHANGED <<wings, inflight>>

\* The wings passed are wings of the store, as for analyzeConnectionsForWing.
batchAnalyzeConnections(ids, reply) ==
  \E r \in {BatchRun(ids, connections, nextId, reply)} :
      /\ \A i \in 1..Len(ids) : ids[i] \in wings
      /\ nextId + Len(r.created) <= MaxId + 1
      /\ connections' = r.store
      /\ nextId' = nextId + Len(r.created)
      /\ last' = Outcome("batch", Len(r.created), r.calls)
      /\ UNCHANGED <<wings, inflight>>

createManualConnection(wingId1, wingId2) ==
  \E r \in ManualRuns(connections, nextId, wingId1, wingId2) :
    /\ r.created => nextId <= MaxId
    /\ connections' = r.store
    /\ nextId' = IF r.created THEN nextId + 1 ELSE nextId
    /\ last' = Done("manual", 1)
    /\ UNCHANGED <<wings, inflight>>

removeConnection(wingId1, wingId2) ==
  \E r \in RemoveRuns(connections, wingId1, wingId2) :
    /\ connections' = r.store
    /\ last' = Done("remove", IF r.ret THEN 1 ELSE 0)
    /\ UNCHANGED <<wings, nextId, inflight>>

refreshConnections(wingId, replies) ==
  \E r \in {RefreshRun(wingId, wings, connections, nextId, replies)} :
      /\ nextId + Len(r.created) <= MaxId + 1
      /\ connections' = r.store
      /\ nextId' = nextId + Len(r.created)
      /\ last' = Outcome("refresh", Len(r.created), r.calls)
      /\ UNCHANGED <<wings, inflight>>

getRelatedWings(wingId) ==
  \E r \in RelatedRuns(connections, wings, wingId) :
    /\ last' = Done("related", Len(r))
    /\ UNCHANGED <<wings, connections, nextId, inflight>>

getConnectionStats ==
  \E r \in {StatsRun(connections, wings)} :
    /\ last' = Done("stats", r.totalConnections)
    /\ UNCHANGED <<wings, connections, nextId, inflight>>

Next ==
  \/ \E id \in WingIds : createWing(id)
  \/ \E id \in WingIds : \E replies \in AnalyzeReplies(id) :
       analyzeConnectionsForWing(id, replies)
  \/ \E ids \in BatchInputs : \E reply \in BatchRepliesFor(ids) :
       batchAnalyzeConnections(ids, reply)
  \/ \E p \in ManualInputs : createManualConnection(p[1], p[2])
  \/ \E a \in WingIds, b \in WingIds : removeConnection(a, b)
  \/ \E id \in WingIds : \E replies \in AnalyzeReplies(id) :
       refreshConnections(id, replies)

\* The calls that write to the stores.
Spec == Init /\ [][Next]_vars

\* The same calls together with the calls that only read.
NextWithReads ==
  \/ Next
  \/ \E id \in WingIds : getRelatedWings(id)
  \/ getConnectionStats

SpecWithReads == Init /\ [][NextWithReads]_vars

\* The batch analysis on its own: wings are saved, pairs are connected by
\* hand, and lists of saved wings are analysed in one batch.
BatchNext ==
  \/ \E id \in WingIds : createWing(id)
  \/ \E ids \in BatchInputs : \E reply \in BatchRepliesFor(ids) :
       batchAnalyzeConnections(ids, reply)
  \/ \E p \in ManualInputs : createManualConnection(p[1], p[2])

BatchSpec == Init /\ [][BatchNext]_vars

(***************************************************************************)
(* Calls in flight.  An async call runs until its next await and is        *)
(* resumed later, other calls running in between; a request to the store   *)
(* takes effect when it is issued.  A task of inflight is one call of      *)
(* analyzeConnectionsForWing or createManualConnection, pc telling the     *)
(* await it is suspended at: "loaded" (db.getAllWings, holding the other    *)
(* wings), "checked" (db.getConnectionBetween, holding what it found),     *)
(* "scoring" (calculateConnectionScore), "created" (db.createConnection),  *)
(* "mchecked" (db.getConnectionBetween of createManualConnection, holding  *)
(* the id it found or 0), "done" (returned).                               *)
(***************************************************************************)
\* The task when the loop of analyzeConnectionsForWing goes on with the wings
\* others: the call returns when none is left (line 68), else it asks
\* db.getConnectionBetween about the first (line 47).
NextTurn(task, others, store) ==
  IF others = <<>>
  THEN [pc |-> "done", op |-> "analyze", wing |-> task.wing, n |-> task.n]
  ELSE [pc |-> "checked", op |-> "analyze", wing |-> task.wing,
        others |-> others, n |-> task.n,
        existing |-> AlreadyConnected(store, task.wing, Head(others))]

\* Lines 32-37: the call starts and asks for the wings.
AnalyzeBegin(t, id) ==
  /\ inflight[t].pc \in {"idle", "done"}
  /\ id \in wings
  /\ inflight' = [inflight EXCEPT ![t] =
                    [pc |-> "loaded", op |-> "analyze", wing |-> id, n |-> 0,
                     others |-> SelectSeq(SortedIds(wings), LAMBDA w : w # id)]]
  /\ UNCHANGED <<wings, connections, nextId, last>>

\* Lines 38-47: the wings have arrived.
AnalyzeLoaded(t) ==
  /\ inflight[t].pc = "loaded"
  /\ inflight' = [inflight EXCEPT ![t] = NextTurn(@, @.others, connections)]
  /\ UNCHANGED <<wings, connections, nextId, last>>

\* Lines 48-51: the answer of db.getConnectionBetween has arrived; a connected
\* pair is skipped, the other is scored.
AnalyzeChecked(t) ==
  /\ inflight[t].pc = "checked"
  /\ inflight' = [inflight EXCEPT ![t] =
                    IF @.existing
                    THEN NextTurn(@, Tail(@.others), connections)
                    ELSE [pc |-> "scoring", op |-> "analyze", wing |-> @.wing,
                          others |-> @.others, n |-> @.n]]
  /\ UNCHANGED <<wings, connections, nextId, last>>

\* Lines 51-62 with the store checked again before the write: a pair that
\* has been connected since the check of line 47 is skipped.
ScoredRun_ChecksAgain(task, store, nid, reply) ==
  LET score == ConnectionScore[task.wing, Head(task.others), reply]
      connection == [id |-> nid,
                     wingId1 |-> task.wing,
                     wingId2 |-> Head(task.others),
                     score |-> score,
                     type |-> SEMANTIC]
  IN  IF Accepted(score) /\ ~AlreadyConnected(store, task.wing, Head(task.others))
      THEN [store |-> createConnection(store, connection),
            created |-> TRUE,
            task |-> [pc |-> "created", op |-> "analyze", wing |-> task.wing,
                      others |-> task.others, n |-> task.n + 1]]
      ELSE [store |-> store,
            created |-> FALSE,
            task |-> NextTurn(task, Tail(task.others), store)]

\* Lines 51-62 for a task whose score has arrived: [store, created, task];
\* an accepted pair gets the id nid and is given to db.createConnection,
\* without another look at the store.
ScoredRun(task, store, nid, reply) ==
  LET score == ConnectionScore[task.wing, Head(task.others), reply]
      connection == [id |-> nid,
                     wingId1 |-> task.wing,
                     wingId2 |-> Head(task.others),
                     score |-> score,
                     type |-> SEMANTIC]
  IN  IF Accepted(score)
      THEN [store |-> createConnection(store, connection),
            created |-> TRUE,
            task |-> [pc |-> "created", op |-> "analyze", wing |-> task.wing,
                      others |-> task.others, n |-> task.n + 1]]
      ELSE [store |-> store,
            created |-> FALSE,
            task |-> NextTurn(task, Tail(task.others), store)]

\* The replies calculateConnectionScore can get for the pair a task is
\* scoring: the external call is made when both wings have a summary.
TaskReplies(task) ==
  IF NeedsCall(Wing(task.wing), Wing(Head(task.others)))
  THEN PairReplies ELSE {Failure}

\* The score has arrived.
AnalyzeScored(t, reply) ==
  /\ inflight[t].pc = "scoring"
  /\ reply \in TaskReplies(inflight[t])
  /\ \E r \in {ScoredRun(inflight[t], connections, nextId, reply)} :
       /\ r.created => nextId <= MaxId
       /\ connections' = r.store
       /\ nextId' = IF r.created THEN nextId + 1 ELSE nextId
       /\ inflight' = [inflight EXCEPT ![t] = r.task]
  /\ UNCHANGED <<wings, last>>

\* Lines 63-65 and 47: db.createConnection has returned.
AnalyzeCreated(t) ==
  /\ inflight[t].pc = "created"
  /\ inflight' = [inflight EXCEPT ![t] = NextTurn(@, Tail(@.others), connections)]
  /\ UNCHANGED <<wings, connections, nextId, last>>

\* Lines 360-362: createManualConnection starts and asks
\* db.getConnectionBetween, which answers with one of the connections of the
\* pair (found is its id) or with none (0).
ManualBegin(t, wingId1, wingId2) ==
  /\ inflight[t].pc \in {"idle", "done"}
  /\ \E found \in IF getConnectionBetween(connections, wingId1, wingId2) = {}
                   THEN {0}
                   ELSE {e.id : e \in getConnectionBetween(connections, wingId1, wingId2)} :
       inflight' = [inflight EXCEPT ![t] =
                      [pc |-> "mchecked", op |-> "manual", wingId1 |-> wingId1,
                       wingId2 |-> wingId2, found |-> found]]
  /\ UNCHANGED <<wings, connections, nextId, last>>

\* Lines 363-379: the answer has arrived; the connection found is updated, or
\* a new one created.
ManualChecked(t) ==
  /\ inflight[t].pc = "mchecked"
  /\ IF inflight[t].found # 0
     THEN /\ connections' = updateConnection(connections, inflight[t].found, MANUAL, One)
          /\ UNCHANGED nextId
     ELSE /\ nextId <= MaxId
          /\ connections' =
               createConnection(connections,
                                [id |-> nextId,
                                 wingId1 |-> inflight[t].wingId1,
                                 wingId2 |-> inflight[t].wingId2,
                                 score |-> One,
                                 type |-> MANUAL])
          /\ nextId' = nextId + 1
  /\ inflight' = [inflight EXCEPT ![t] =
                    [pc |-> "done", op |-> "manual", wingId1 |-> @.wingId1,
                     wingId2 |-> @.wingId2]]
  /\ UNCHANGED <<wings, last>>

RaceNext ==
  \/ \E id \in WingIds : createWing(id)
  \/ \E t \in TaskIds : \E id \in WingIds : AnalyzeBegin(t, id)
  \/ \E t \in TaskIds : AnalyzeLoaded(t)
  \/ \E t \in TaskIds : AnalyzeChecked(t)
  \/ \E t \in TaskIds : \E reply \in PairReplies : AnalyzeScored(t, reply)
  \/ \E t \in TaskIds : AnalyzeCreated(t)
  \/ \E t \in TaskIds : \E p \in ManualInputs : ManualBegin(t, p[1], p[2])
  \/ \E t \in TaskIds : ManualChecked(t)

\* Two calls in flight at a time, on the wings saved so far.
RaceSpec == Init /\ [][RaceNext]_vars

(***************************************************************************)
(* The scorer on its own: a call of calculateConnectionScore(wing1, wing2) *)
(* is in flight for two wing records drawn from ScoreWings, and ScoreStep  *)
(* runs it with the reply of the external call.                            *)
(***************************************************************************)
\* Hostnames: none (new URL throws), two labels, sub-domains of the same
\* root, another root, one label.
ScoreUrls ==
  { <<>>,
    <<"example", "com">>,
    <<"blog", "example", "com">>,
    <<"docs", "example", "com">>,
    <<"example", "org">>,
    <<"localhost">> }

ScoreCollections ==
  {<<>>, <<"c1">>, <<"c2">>, <<"c1", "c2">>, <<"c3", "c2", "c1">>}

ScoreWings ==
  [url : ScoreUrls, summary : {<<>>, <<"s">>}, collectionIds : ScoreCollections]

ScoreInit ==
  /\ wings = {}
  /\ connections = {}
  /\ nextId = 1
  /\ last = Done("init", 0)
  /\ \E wing1 \in ScoreWings, wing2 \in ScoreWings :
       inflight = [t \in TaskIds |->
                     IF t = "t1"
                     THEN [pc |-> "score", wing1 |-> wing1, wing2 |-> wing2]
                     ELSE Idle]

\* calculateConnectionScore(wing1, wing2) runs to its return; the task keeps
\* the three signals and the score.
ScoreStep(t, reply) ==
  /\ inflight[t].pc = "score"
  /\ reply \in IF NeedsCall(inflight[t].wing1, inflight[t].wing2)
                THEN PairReplies ELSE {Failure}
  /\ inflight' =
       [inflight EXCEPT ![t] =
          [pc |-> "scored",
           wing1 |-> inflight[t].wing1,
           wing2 |-> inflight[t].wing2,
           called |-> NeedsCall(inflight[t].wing1, inflight[t].wing2),
           reply |-> reply,
           collectionScore |->
             calculateCollectionProximity(inflight[t].wing1, inflight[t].wing2),
           domainScore |->
             calculateDomainSimilarity(inflight[t].wing1, inflight[t].wing2),
           semanticScore |-> calculateSemanticSimilarity(reply),
           score |->
             calculateConnectionScore(inflight[t].wing1, inflight[t].wing2, reply)]]
  /\ UNCHANGED <<wings, connections, nextId, last>>

ScoreNext == \E t \in TaskIds : \E reply \in PairReplies : ScoreStep(t, reply)

ScoreSpec == ScoreInit /\ [][ScoreNext]_vars

(***************************************************************************)
(* Properties.  Between is the set of connections of an unordered pair,    *)
(* read off the records.                                                   *)
(***************************************************************************)
Between(store, a, b) == {c \in store : {c.wingId1, c.wingId2} = {a, b}}

\* C1: after any sequence of completed calls, starting from an empty store
\* and for any replies of the external call, the store holds at most one
\* connection for any unordered pair of wings.
C1_AtMostOneEdgePerPair ==
  \A c \in connections, d \in connections :
    {c.wingId1, c.wingId2} = {d.wingId1, d.wingId2} => c = d

\* C2: no stored connection has wingId1 equal to wingId2, whatever the
\* arguments of createManualConnection, the input lists of
\* batchAnalyzeConnections and the replies of the external call.
C2_NoSelfEdges == \A c \in connections : c.wingId1 # c.wingId2

\* The step is removeConnection on the pair of c.
RemovesPair(c) ==
  \/ removeConnection(c.wingId1, c.wingId2)
  \/ removeConnection(c.wingId2, c.wingId1)

\* The step is refreshConnections on one of the wings of c.
RefreshesEndpoint(c) ==
  \E id \in {c.wingId1, c.wingId2} :
    \E replies \in AnalyzeReplies(id) : refreshConnections(id, replies)

\* C3 as stated: a manual connection between two wings A and B has score 1
\* and every step keeps it in the store as it is, except removeConnection on
\* its pair.
C3_OnlyRemoveDeletesManual ==
  [][\A c \in connections :
       c.type = MANUAL /\ c.wingId1 # c.wingId2 =>
         /\ c.score = One
         /\ c \in connections' \/ RemovesPair(c)]_vars

\* C3, amended: a manual connection has score 1 and every step keeps it in
\* the store as it is, except removeConnection on its pair and
\* refreshConnections on one of its two wings.
C3_ManualUntilRemoveOrRefresh ==
  [][\A c \in connections :
       c.type = MANUAL =>
         /\ c.score = One
         /\ c \in connections' \/ RemovesPair(c) \/ RefreshesEndpoint(c)]_vars

\* C3 witness: an analysis has just added connections to a store that holds
\* a manual connection.
C3_Witness ==
  /\ last.op \in {"analyze", "batch"}
  /\ last.n >= 1
  /\ \E c \in connections : c.type = MANUAL /\ c.score = One

\* The reply analyzeConnectionsForWing(X) gets for the pair (X, Y): none is
\* asked for when a summary is missing.
ReplyFor(X, Y, replies) ==
  IF NeedsCall(Wing(X), Wing(Y)) THEN replies[Y] ELSE Failure

\* C4: analyzeConnectionsForWing(X), for every other saved wing Y that has no
\* connection with X: when the combined score of (X, Y) is below 3/10 the
\* run creates no connection for the pair; when it is 3/10 or more the run
\* creates exactly one, stored with that score and returned in the list.
C4_ThresholdCorrectness ==
  \A X \in wings : \A replies \in AnalyzeReplies(X) :
    \A r \in {AnalyzeRun(Wing(X), wings, connections, nextId, replies)} :
      \A Y \in wings \ {X} :
        Between(connections, X, Y) = {} =>
          \A score \in {calculateConnectionScore(Wing(X), Wing(Y),
                                                 ReplyFor(X, Y, replies))} :
            IF RLt[score, <<3, 10>>]
            THEN /\ Between(r.store, X, Y) = {}
                 /\ Between(Range(r.created), X, Y) = {}
            ELSE \E c \in r.store :
                   /\ Between(r.store, X, Y) = {c}
                   /\ c.score = score
                   /\ c \notin connections
                   /\ \E k \in 1..Len(r.created) :
                        /\ r.created[k] = c
                        /\ \A j \in 1..Len(r.created) :
                             r.created[j] \in Between(r.store, X, Y) => j = k

\* C4 witness: analyzeConnectionsForWing has created one connection, for a
\* pair whose combined score 53/80 is above the threshold.
C4_Witness ==
  /\ last = Done("analyze", 1)
  /\ \E c \in connections : c.type = SEMANTIC /\ c.score = <<53, 80>>

\* analyzeConnectionsForWing(X) run in the current state with the replies
\* replies1, and run again right after the run first with the replies replies2.
FirstRun(X, replies1) ==
  AnalyzeRun(Wing(X), wings, connections, nextId, replies1)

SecondRun(X, first, replies2) ==
  AnalyzeRun(Wing(X), wings, first.store, nextId + Len(first.created), replies2)

\* C5 as stated: the second of two runs of analyzeConnectionsForWing(X) in a
\* row returns the empty list and leaves the store as it was, whatever the
\* replies of the two runs.
C5_SecondRunCreatesNothing ==
  \A X \in wings : \A replies1 \in AnalyzeReplies(X) :
    \A first \in {FirstRun(X, replies1)} :
      \A replies2 \in AnalyzeReplies(X) :
        \A second \in {SecondRun(X, first, replies2)} :
          second.created = <<>> /\ second.store = first.store

\* C5, amended: the second run creates no connection for a pair that is
\* connected when it starts, whatever the replies; and when the replies are
\* the same in both runs it returns the empty list and leaves the store as it
\* was.
C5_SecondRunNoDuplicate ==
  \A X \in wings : \A replies1 \in AnalyzeReplies(X) :
    \A first \in {FirstRun(X, replies1)} :
      \A replies2 \in AnalyzeReplies(X) :
        \A second \in {SecondRun(X, first, replies2)} :
          /\ \A k \in 1..Len(second.created) :
               Between(first.store, second.created[k].wingId1,
                       second.created[k].wingId2) = {}
          /\ first.store \subseteq second.store
          /\ second.store \ first.store = Range(second.created)
          /\ replies1 = replies2 =>
               second.created = <<>> /\ second.store = first.store

\* C5 witness: analyzeConnectionsForWing has returned the empty list on a
\* store whose only connection is the one an earlier run created.
C5_Witness ==
  /\ last = Done("analyze", 0)
  /\ nextId = 2
  /\ \E c \in connections : connections = {c} /\ c.type = SEMANTIC /\ c.id = 1

\* C6: createManualConnection(A, B) on a connected pair creates no connection
\* and sets score 1 and kind manual in the one it found, keeping its id and
\* wings; and after createManualConnection(A, B) followed by
\* createManualConnection(A, B) or (B, A) the pair has exactly one
\* connection, with score 1 and kind manual.
C6_ManualUpgradeIdempotent ==
  \A a \in WingIds, b \in WingIds :
    /\ Between(connections, a, b) # {} =>
         \A r \in ManualRuns(connections, nextId, a, b) :
           /\ ~r.created
           /\ \E e \in Between(connections, a, b) :
                /\ r.ret = [e EXCEPT !.type = MANUAL, !.score = One]
                /\ r.store = (connections \ {e}) \cup {r.ret}
    /\ \A first \in ManualRuns(connections, nextId, a, b) :
         \A second \in
             ManualRuns(first.store, IF first.created THEN nextId + 1 ELSE nextId, a, b)
             \cup
             ManualRuns(first.store, IF first.created THEN nextId + 1 ELSE nextId, b, a) :
           /\ ~second.created
           /\ \E c \in second.store :
                /\ Between(second.store, a, b) = {c}
                /\ c.score = One
                /\ c.type = MANUAL

\* C7: every stored connection has a score from 0 to 1.
C7_ScoreBounds ==
  \A c \in connections :
    /\ c.score[2] > 0
    /\ 0 <= c.score[1]
    /\ c.score[1] <= c.score[2]

\* C7 witness: batchAnalyzeConnections has stored a semantic connection
\* whose score the reply gave as 1.5.
C7_Witness ==
  /\ last.op = "batch"
  /\ \E c \in connections : c.type = SEMANTIC /\ c.score = One /\ c.id = nextId - 1

\* C8: batchAnalyzeConnections(items) neither returns nor stores a connection
\* for a pair that had a connection when the call started.
C8_BatchSkipsConnectedPairs ==
  \A ids \in BatchInputs : \A reply \in BatchRepliesFor(ids) :
    \A r \in {BatchRun(ids, connections, nextId, reply)} :
      /\ \A k \in 1..Len(r.created) :
           Between(connections, r.created[k].wingId1, r.created[k].wingId2) = {}
      /\ \A c \in r.store \ connections :
           Between(connections, c.wingId1, c.wingId2) = {}

\* C9: a step changes a stored connection (taken by its id) only from kind
\* semantic or collection to kind manual with score 1, and only a step of
\* createManualConnection does; and while a manual connection stays in the
\* store, a step adds no connection of another kind for its pair.
C9_KindTransitions ==
  [][\A c \in connections, d \in connections' :
       /\ d.id = c.id /\ d # c =>
            /\ c.type # MANUAL
            /\ d = [c EXCEPT !.type = MANUAL, !.score = One]
            /\ \E a \in WingIds, b \in WingIds : createManualConnection(a, b)
       /\ ( /\ c.type = MANUAL
            /\ c \in connections'
            /\ d \notin connections
            /\ {d.wingId1, d.wingId2} = {c.wingId1, c.wingId2} )
          => d.type = MANUAL]_vars

\* C10: removeConnection(A, B) returns true exactly when the pair had a
\* connection at the call; afterwards the pair has none, and the connections
\* of every other pair are as they were.
C10_RemoveConnection ==
  \A a \in WingIds, b \in WingIds :
    \A r \in RemoveRuns(connections, a, b) :
      /\ r.ret <=> Between(connections, a, b) # {}
      /\ Between(r.store, a, b) = {}
      /\ r.store \ Between(r.store, a, b)
           = connections \ Between(connections, a, b)

\* C11: refreshConnections(id) for an id that has no wing in the store
\* returns the empty list, makes no external call and adds no connection to
\* the store; removeConnection(A, B) for a pair without a connection returns
\* false and leaves the store as it is.
C11_NotFoundIsNormal ==
  /\ \A id \in WingIds \ wings : \A replies \in AnalyzeReplies(id) :
       \E r \in {RefreshRun(id, wings, connections, nextId, replies)} :
         /\ r.created = <<>>
         /\ r.calls = {}
         /\ r.store \subseteq connections
  /\ \A a \in WingIds, b \in WingIds :
       Between(connections, a, b) = {} =>
         RemoveRuns(connections, a, b) = {[store |-> connections, ret |-> FALSE]}

\* C11 witness: refreshConnections has returned the empty list while no wing
\* is saved, and the store still holds a connection.
C11_Witness ==
  /\ last = Done("refresh", 0)
  /\ wings = {}
  /\ connections # {}

\* C12: the list getRelatedWings(X) returns is in non-increasing order of
\* connectionScore, for every wing X and every order in which the store
\* hands out the connections of X.
C12_RelatedSortedByScore ==
  \A X \in WingIds : \A r \in RelatedRuns(connections, wings, X) :
    \A i \in 1..(Len(r) - 1) : RLe[r[i + 1].connectionScore, r[i].connectionScore]

\* C12 witness: getRelatedWings has returned two entries, and some wing has
\* two related wings with different scores.
C12_Witness ==
  /\ last = Done("related", 2)
  /\ \E X \in WingIds : \E r \in RelatedRuns(connections, wings, X) :
       Len(r) = 2 /\ r[1].connectionScore # r[2].connectionScore

\* The wing at the other end of the connection c of wing X.
OtherEnd(c, X) == IF c.wingId1 = X THEN c.wingId2 ELSE c.wingId1

\* C13: getRelatedWings(X) returns exactly one entry for each connection of
\* X whose other wing is saved and none for the others (so the empty list
\* when there is none); each entry is the wing at the other end, never X
\* itself, and carries the score, the kind and the id of its connection.
C13_RelatedMatchesEdges ==
  \A X \in WingIds : \A r \in RelatedRuns(connections, wings, X) :
    LET E == {c \in getConnectionsForWing(connections, X) : OtherEnd(c, X) \in wings}
    IN  /\ Len(r) = Cardinality(E)
        /\ \A c \in E : \E i \in 1..Len(r) :
             /\ r[i].connectionId = c.id
             /\ r[i].id = OtherEnd(c, X)
             /\ r[i].url = Wing(OtherEnd(c, X)).url
             /\ r[i].connectionScore = c.score
             /\ r[i].connectionType = c.type
        /\ \A i \in 1..Len(r) : r[i].id # X

\* C13 on the stores that hold no wing connected to itself and at most one
\* connection for a pair.
C13_WithoutDuplicatesAndSelfEdges ==
  C1_AtMostOneEdgePerPair /\ C2_NoSelfEdges => C13_RelatedMatchesEdges

\* The replies that give no number between 0 and 1: a failed call, "1.5"
\* and "-1".
Unusable(reply) ==
  \/ ~reply.ok
  \/ reply.text \in {<<"1", ".", "5">>, <<"-", "1">>}

\* The score of every pair when the reply is "0", computed once.
ScoreWithReplyZero ==
  [id1 \in WingIds, id2 \in WingIds |->
     calculateConnectionScore(Wing(id1), Wing(id2), Reply(<<"0">>))]

\* C14: analyzeConnectionsForWing(X) returns for every reply of the external
\* call, and a pair (X, Y) whose call has failed or given an unusable text is
\* scored as a pair whose reply is "0"; every pair without a connection,
\* that one and the others, gets exactly one connection, stored and
\* returned, when its score is 3/10 or more and none when it is below.
C14_FailedCallScoresZero ==
  \A X \in wings : \A replies \in AnalyzeReplies(X) :
    \A r \in {AnalyzeRun(Wing(X), wings, connections, nextId, replies)} :
      \A Y \in wings \ {X} :
        Between(connections, X, Y) = {} =>
          \A score \in {IF Unusable(ReplyFor(X, Y, replies))
                         THEN ScoreWithReplyZero[X, Y]
                         ELSE ConnectionScore[X, Y, ReplyFor(X, Y, replies)]} :
            IF RLe[<<3, 10>>, score]
            THEN \E k \in 1..Len(r.created) :
                   /\ Between(Range(r.created), X, Y) = {r.created[k]}
                   /\ r.created[k].score = score
                   /\ r.created[k] \in r.store
            ELSE /\ Between(r.store, X, Y) = {}
                 /\ Between(Range(r.created), X, Y) = {}

\* C14 witness: an analysis whose external call has failed has created a
\* connection for another pair, the one of wings 2 and 3 with score 1/2.
C14_Witness ==
  /\ last.op = "analyze"
  /\ last.failed
  /\ last.n = 1
  /\ \E c \in connections :
       c.id = nextId - 1 /\ c.wingId1 = 2 /\ c.wingId2 = 3 /\ c.score = <<1, 2>>

\* The lists of saved wings for which batchAnalyzeConnections makes the
\* batched call: two of the wings have a summary.
BatchCallLists ==
  {ids \in BatchInputs :
     /\ \A i \in 1..Len(ids) : ids[i] \in wings
     /\ Len(SelectSeq(WingsOf(ids), HasSummary)) >= 2}

\* C15: when the batched call fails, batchAnalyzeConnections returns, and for
\* every pair of the list it creates one connection of kind collection,
\* stored and returned with the score of the collection and domain signals,
\* when that score is 3/10 or more and the store does not connect the pair;
\* it creates none for the other pairs.
C15_BatchSurvivesFailedCall ==
  \A ids \in BatchCallLists :
    \A r \in {BatchRun(ids, connections, nextId, Failure)} :
      \A i \in 1..Len(ids), j \in 1..Len(ids) :
        i < j =>
          \A score \in {combinedScore(Wing(ids[i]), Wing(ids[j]))} :
            IF Between(connections, ids[i], ids[j]) = {} /\ RLe[<<3, 10>>, score]
            THEN \E k \in 1..Len(r.created) :
                   /\ Between(Range(r.created), ids[i], ids[j]) = {r.created[k]}
                   /\ r.created[k].score = score
                   /\ r.created[k].type = COLLECTION
                   /\ r.created[k] \in r.store
            ELSE Between(Range(r.created), ids[i], ids[j]) = {}

\* C15 witness: batchAnalyzeConnections, whose batched call has failed, has
\* returned connections, and the one created last is of kind collection.
C15_Witness ==
  /\ last.op = "batch"
  /\ last.failed
  /\ last.n >= 1
  /\ \E c \in connections : c.id = nextId - 1 /\ c.type = COLLECTION

\* The number each reply text stands for, NaN for a text that is not a
\* number: "0.75", " 0.1" and a line end, "1.5", "-1", "0", "1", "high".
ReplyNumber(reply) ==
  CASE reply.text = <<"0", ".", "7", "5">> -> <<3, 4>>
    [] reply.text = <<" ", "0", ".", "1", "\n">> -> <<1, 10>>
    [] reply.text = <<"1", ".", "5">> -> <<3, 2>>
    [] reply.text = <<"-", "1">> -> <<-1, 1>>
    [] reply.text = <<"0">> -> <<0, 1>>
    [] reply.text = <<"1">> -> <<1, 1>>
    [] OTHER -> NaN

\* The signal calculateSemanticSimilarity gives for reply is the number of
\* the reply when the call has not failed and the number lies between 0 and
\* 1, both included, and 0 otherwise; it is never above 1.
SignalFailSafe(reply) ==
  \A signal \in {calculateSemanticSimilarity(reply)} :
    /\ signal = IF /\ reply.ok
                   /\ ~IsNaN(ReplyNumber(reply))
                   /\ ReplyNumber(reply)[1] >= 0
                   /\ ReplyNumber(reply)[1] <= ReplyNumber(reply)[2]
                THEN ReplyNumber(reply)
                ELSE <<0, 1>>
    /\ ~IsNaN(signal)
    /\ signal[1] <= signal[2]

\* C16: for every pair of saved wings that analyzeConnectionsForWing makes
\* its call for, and for every reply, the semantic signal of the pair is the
\* number of the reply when that number lies between 0 and 1, and 0 for a
\* failed call, a number above 1 ("1.5") and a number below 0 ("-1"); the
\* replies "0" and "1" give 0 and 1 and the reply "high", which is not a
\* number, gives 0.  The signal is never above 1.
C16_SemanticSignalFailSafe ==
  /\ \A X \in wings : \A Y \in CallTargets(X) \cap wings :
       \A reply \in PairReplies : SignalFailSafe(reply)
  /\ SignalFailSafe(Reply(<<"0">>))
  /\ SignalFailSafe(Reply(<<"1">>))
  /\ SignalFailSafe(Reply(<<"h", "i", "g", "h">>))

\* C16 witness: analyzeConnectionsForWing has made its call for the pair of
\* wings 1 and 2, the call has not failed, and no connection was created:
\* the signal was 1/10 or 0.
C16_Witness ==
  /\ last.op = "analyze"
  /\ ~last.failed
  /\ last.n = 0
  /\ wings = {1, 2}
  /\ connections = {}

\* C17: batchAnalyzeConnections on a list of fewer than two wings (the empty
\* list, one wing with a summary, one wing without) returns the empty list,
\* makes no external call and leaves the store as it is, whatever the
\* external call would have answered.
C17_SmallBatchDoesNothing ==
  \A ids \in BatchInputs :
    Len(ids) < 2 =>
      \A reply \in BatchReplies :
        \A r \in {BatchRun(ids, connections, nextId, reply)} :
          /\ r.created = <<>>
          /\ r.calls = {}
          /\ r.store = connections

\* C17 witness: batchAnalyzeConnections has returned the empty list while
\* one wing is saved, so that the list it was given had at most that wing.
C17_Witness ==
  /\ last = Done("batch", 0)
  /\ wings = {1}

\* C18: getConnectionStats on a store without connections returns
\* totalConnections 0, averageScore 0, highScoreConnections 0 and an empty
\* connectionsByType, and totalWings 0 when no wing is saved either; in
\* every store averageScore is a number.
C18_StatsOfEmptyStore ==
  \A s \in {StatsRun(connections, wings)} :
    /\ connections = {} =>
         /\ s.totalConnections = 0
         /\ s.averageScore = <<0, 1>>
         /\ s.highScoreConnections = 0
         /\ DOMAIN s.connectionsByType = {}
    /\ wings = {} => s.totalWings = 0
    /\ ~IsNaN(s.averageScore)

\* C18 witness: getConnectionStats has returned while no wing is saved and
\* the store has no connection.
C18_Witness ==
  /\ last = Done("stats", 0)
  /\ wings = {}
  /\ connections = {}

\* The lists of saved wings batchAnalyzeConnections can be given.
SavedLists == {ids \in BatchInputs : \A i \in 1..Len(ids) : ids[i] \in wings}

C20_AnalysesRespectThreshold ==
  \A c \in connections : RLe[<<3, 10>>, c.score]

\* C20 witness: batchAnalyzeConnections has just created a connection whose
\* score is exactly 3/10.
C20_Witness ==
  /\ last.op = "batch"
  /\ \E c \in connections : c.id = nextId - 1 /\ c.score = <<3, 10>>

\* The tasks whose call of calculateConnectionScore has returned.
Scored == {t \in TaskIds : inflight[t].pc = "scored"}

\* The collection ids two wings share, as a set.
SharedCollections(wing1, wing2) ==
  Range(wing1.collectionIds) \cap Range(wing2.collectionIds)

\* C29: the collection proximity of two wings is 0 when one of them is in
\* no collection or they share none; otherwise it is the number of shared
\* collection ids over the larger of the two numbers of collections, a
\* value above 0 and at most 1.
C29_CollectionProximity ==
  \A t \in Scored :
    \A shared \in {SharedCollections(inflight[t].wing1, inflight[t].wing2)} :
      \A n1 \in {Len(inflight[t].wing1.collectionIds)} :
        \A n2 \in {Len(inflight[t].wing2.collectionIds)} :
          IF n1 = 0 \/ n2 = 0 \/ shared = {}
          THEN inflight[t].collectionScore = <<0, 1>>
          ELSE /\ inflight[t].collectionScore[1] * (IF n1 >= n2 THEN n1 ELSE n2)
                    = Cardinality(shared) * inflight[t].collectionScore[2]
               /\ inflight[t].collectionScore[2] > 0
               /\ inflight[t].collectionScore[1] > 0
               /\ inflight[t].collectionScore[1] <= inflight[t].collectionScore[2]

\* C29 witness: the scorer has returned for a wing in one collection and a
\* wing in three, one of them shared: the proximity is 1/3.
C29_Witness ==
  \E t \in Scored :
    /\ Len(inflight[t].wing1.collectionIds) = 1
    /\ Len(inflight[t].wing2.collectionIds) = 3
    /\ inflight[t].collectionScore = <<1, 3>>

\* The last two labels of a hostname given as its sequence of labels (all of
\* it when it has fewer than two).
LastTwoLabels(hostname) ==
  [i \in 1..(IF Len(hostname) < 2 THEN Len(hostname) ELSE 2) |->
     hostname[Len(hostname) - (IF Len(hostname) < 2 THEN Len(hostname) ELSE 2) + i]]

\* C30: the domain similarity of two wings is 8/10 when both URLs parse and
\* have the same hostname, 5/10 when the hostnames differ and their last two
\* labels are equal, and 0 in every other case, a URL that does not parse
\* included; the function always returns a value.
C30_DomainSimilarity ==
  \A t \in Scored :
    \A url1 \in {inflight[t].wing1.url} :
      \A url2 \in {inflight[t].wing2.url} :
        inflight[t].domainScore =
          IF url1 = <<>> \/ url2 = <<>> THEN <<0, 1>>
          ELSE IF url1 = url2 THEN <<4, 5>>
          ELSE IF LastTwoLabels(url1) = LastTwoLabels(url2) THEN <<1, 2>>
          ELSE <<0, 1>>

\* C30 witness: the scorer has returned 5/10 for two different sub-domains
\* of one root.
C30_Witness ==
  /\ \E t \in Scored :
       /\ inflight[t].wing1.url = <<"blog", "example", "com">>
       /\ inflight[t].wing2.url = <<"docs", "example", "com">>
       /\ inflight[t].domainScore = <<1, 2>>

\* The weighted average of the signals that contribute, as <<score, weight>>
\* pairs, capped at 1; 0 when there is none.
WeightedAverage(parts) ==
  IF parts = <<>> THEN <<0, 1>>
  ELSE RMin[<<1, 1>>,
            RDiv[SumSeq[[i \in 1..Len(parts) |-> RMul[parts[i][1], parts[i][2]]]],
                 SumSeq[[i \in 1..Len(parts) |-> parts[i][2]]]]]

\* The signals that contribute to the score of a scored task: the collection
\* and the domain signal when above 0, with weights 20/100 and 15/100, or
\* 40/100 and 30/100 when a summary is missing; the semantic signal, weight
\* 65/100, when both wings have a summary and, unless zeroCounts, its score
\* is above 0.
Contributors(task, zeroCounts) ==
  LET both == task.wing1.summary # <<>> /\ task.wing2.summary # <<>>
  IN  (IF task.collectionScore[1] > 0
       THEN <<<<task.collectionScore, IF both THEN <<1, 5>> ELSE <<2, 5>>>>>>
       ELSE <<>>)
      \o (IF task.domainScore[1] > 0
          THEN <<<<task.domainScore, IF both THEN <<3, 20>> ELSE <<3, 10>>>>>>
          ELSE <<>>)
      \o (IF both /\ (zeroCounts \/ task.semanticScore[1] > 0)
          THEN <<<<task.semanticScore, <<13, 20>>>>>>
          ELSE <<>>)

\* C23: the combined score is the weighted average, capped at 1, of the
\* signals that contribute: the collection signal (20/100) and the domain
\* signal (15/100) when above 0, the semantic signal (65/100), evaluated only
\* when both wings have a summary, when above 0; without summaries the
\* weights are 40/100 and 30/100; no signal of score 0 adds its weight to the
\* denominator, and the score is 0 when no signal contributes.
C23_AverageOfContributors ==
  \A t \in Scored :
    /\ inflight[t].called
         = (inflight[t].wing1.summary # <<>> /\ inflight[t].wing2.summary # <<>>)
    /\ inflight[t].score = WeightedAverage(Contributors(inflight[t], FALSE))

\* C26: for every list of saved wings and every reply,
\* batchAnalyzeConnections makes one external call when two or more wings of
\* the list have a summary and none otherwise, whatever the number of pairs
\* of the list.
C26_OneBatchedCall ==
  \A ids \in SavedLists :
    \A reply \in BatchRepliesFor(ids) :
      Cardinality(BatchRun(ids, connections, nextId, reply).calls)
        = IF Cardinality({i \in 1..Len(ids) : Wing(ids[i]).summary # <<>>}) >= 2
          THEN 1 ELSE 0

\* C26 witness: all three wings are saved, so that the list of three wings
\* with its three pairs can be given, and a batch whose one call has failed
\* has returned.
C26_Witness ==
  /\ wings = {1, 2, 3}
  /\ last.op = "batch"
  /\ last.failed

\* The positions of the list created whose connection joins a and b and has
\* the given kind.
CreatedFor(created, a, b, kind) ==
  {k \in 1..Len(created) :
     /\ {created[k].wingId1, created[k].wingId2} = {a, b}
     /\ created[k].type = kind}

\* C24: batchAnalyzeConnections on a list of saved wings creates, for every
\* two different wings of the list, with or without summaries, at most one
\* connection of kind collection; it creates one, stored with the score
\* collection proximity * 6/10 + domain similarity * 4/10, exactly when the
\* store does not connect the pair, the semantic step has not produced the
\* pair and that score is 3/10 or more.
C24_CollectionPass ==
  \A ids \in SavedLists :
    \A reply \in BatchRepliesFor(ids) :
      \A r \in {BatchRun(ids, connections, nextId, reply)} :
        \A i \in 1..Len(ids), j \in 1..Len(ids) :
          (i < j /\ ids[i] # ids[j]) =>
            \A score \in {RAdd[RMul[calculateCollectionProximity(Wing(ids[i]), Wing(ids[j])),
                                    <<3, 5>>],
                               RMul[calculateDomainSimilarity(Wing(ids[i]), Wing(ids[j])),
                                    <<2, 5>>]]} :
              \A made \in {CreatedFor(r.created, ids[i], ids[j], COLLECTION)} :
                IF /\ Between(connections, ids[i], ids[j]) = {}
                   /\ CreatedFor(r.created, ids[i], ids[j], SEMANTIC) = {}
                   /\ RLe[<<3, 10>>, score]
                THEN /\ Cardinality(made) = 1
                     /\ \A k \in made : /\ r.created[k].score = score
                                         /\ r.created[k] \in r.store
                ELSE made = {}

\* C24 witness: one batch has returned two connections, the semantic step's
\* for wings 1 and 2 and the collection pass's for wings 2 and 3, of which
\* wing 3 has no summary.
C24_Witness ==
  /\ last = Done("batch", 2)
  /\ \E c \in connections, d \in connections :
       /\ {c.id, d.id} = {nextId - 2, nextId - 1}
       /\ {c.wingId1, c.wingId2} = {1, 2} /\ c.type = SEMANTIC
       /\ {d.wingId1, d.wingId2} = {2, 3} /\ d.type = COLLECTION

\* A line of the batched reply with exactly three comma-separated fields,
\* two numeric indices into ws (counted from 0) and a numeric score.
WellFormedLine(ws, line) ==
  LET fields == Split[line, ","]
  IN  /\ Len(fields) = 3
      /\ ~IsNaN(ParseInt[Trim(fields[1])])
      /\ ~IsNaN(ParseInt[Trim(fields[2])])
      /\ ParseInt[Trim(fields[1])][1] \in 0..(Len(ws) - 1)
      /\ ParseInt[Trim(fields[2])][1] \in 0..(Len(ws) - 1)
      /\ ~IsNaN(ParseFloat[Trim(fields[3])])

\* The score field of a well-formed line is 3/10 or more.
ReachesThreshold(line) ==
  RLe[<<3, 10>>, ParseFloat[Trim(Split[line, ","][3])]]

\* What a well-formed line stands for: the two wings at its indices and its
\* score capped at 1.
LineEdge(ws, line) ==
  LET fields == Split[line, ","]
  IN  <<ws[ParseInt[Trim(fields[1])][1] + 1].id,
        ws[ParseInt[Trim(fields[2])][1] + 1].id,
        RMin[<<1, 1>>, ParseFloat[Trim(fields[3])]]>>

\* The lines before the first line that reads "none" in any case.
RECURSIVE BeforeNone(_)
BeforeNone(lines) ==
  IF lines = <<>> THEN <<>>
  ELSE IF ToLowerCase(Head(lines)) = <<"n", "o", "n", "e">> THEN <<>>
  ELSE <<Head(lines)>> \o BeforeNone(Tail(lines))

\* The lines of the reply to the wings with a summary of the list ids.
ReplyLines(reply) == Split[Trim(reply.text), "\n"]

\* The edges the claim expects for every list and reply: one for each
\* well-formed line, or, when amended is true, one for each well-formed line
\* with a score of 3/10 or more before the first "none" line.
ExpectedEdges ==
  [ids \in BatchInputs, reply \in BatchReplies \ {Failure}, amended \in BOOLEAN |->
     LET ws == SelectSeq(WingsOf(ids), LAMBDA w : w.summary # <<>>)
         lines == IF amended THEN BeforeNone(ReplyLines(reply)) ELSE ReplyLines(reply)
         kept == SelectSeq(lines, LAMBDA line :
                   /\ WellFormedLine(ws, line)
                   /\ amended => ReachesThreshold(line))
     IN  [k \in 1..Len(kept) |-> LineEdge(ws, kept[k])]]

\* The connections of kind semantic a batch returns agree with the expected
\* edges, one connection with an id of its own for each edge, in the order
\* of the lines.
SemanticStepYields(amended) ==
  \A ids \in SavedLists :
    Cardinality({i \in 1..Len(ids) : Wing(ids[i]).summary # <<>>}) >= 2 =>
      \A reply \in BatchReplies \ {Failure} :
        \A r \in {BatchRun(ids, connections, nextId, reply)} :
          \A found \in {SelectSeq(r.created, LAMBDA c : c.type = SEMANTIC)} :
            \A expected \in {ExpectedEdges[ids, reply, amended]} :
              /\ Len(found) = Len(expected)
              /\ \A k \in 1..Len(found) :
                   /\ <<found[k].wingId1, found[k].wingId2, found[k].score>>
                        = expected[k]
                   /\ found[k].id = nextId + k - 1
                   /\ found[k] \in r.store

\* C25: each line of the batched reply is handled on its own: a line without
\* exactly three comma-separated fields, with a non-numeric or out-of-range
\* index or with a non-numeric score is skipped, and every other line yields
\* one connection of kind semantic between the wings at its indices in the
\* list of wings with a summary, with the score capped at 1.
C25_EveryWellFormedLineYields == SemanticStepYields(FALSE)

\* C25 as amended: the lines are read up to the first line "none"; among
\* them a line without exactly three fields, with a non-numeric or
\* out-of-range index, with a non-numeric score or with a score below 3/10
\* is skipped without affecting the others, and every other line yields one
\* connection of kind semantic between the wings at its indices, with the
\* score capped at 1.
C25_LinesReadOneByOne == SemanticStepYields(TRUE)

\* C25 witness: a batch has returned one connection with score 1 from wing 2
\* to wing 1: the reply "0,1" and "1, 0, 1.5", whose first line is skipped.
C25_Witness ==
  /\ last = Done("batch", 1)
  /\ \E c \in connections :
       /\ c.id = nextId - 1
       /\ c.wingId1 = 2 /\ c.wingId2 = 1
       /\ c.score = <<1, 1>> /\ c.type = SEMANTIC

\* The connections of a store with the wing X at one end.
Touching(store, X) == {c \in store : c.wingId1 = X \/ c.wingId2 = X}

\* What refreshConnections(X) does to the store, for every wing id X and all
\* replies: the connections with X at one end are the connections it
\* returns; none of the connections X had before, of whatever kind, is in the
\* store, nor any record with the id of one; and the connections without X
\* at an end are the same as before.
RefreshReplacesEdgesOfX ==
  \A X \in WingIds : \A replies \in AnalyzeReplies(X) :
    \A r \in {RefreshRun(X, wings, connections, nextId, replies)} :
      /\ Touching(r.store, X) = Range(r.created)
      /\ \A c \in Touching(connections, X) : \A d \in r.store : d.id # c.id
      /\ r.store \ Touching(r.store, X) = connections \ Touching(connections, X)

\* C27: in every state, when refreshConnections(X) is run and returns with
\* nothing run in between, the connections with X at one end are exactly the
\* connections it returned: every connection X had before, of any kind, is
\* gone, and every connection without X at an end is unchanged.
C27_RefreshReplacesEdgesOfX == []RefreshReplacesEdgesOfX

\* C27 witness: refreshConnections has returned one connection, the second
\* ever created, and it is the only one in the store: the first is gone.
C27_Witness ==
  /\ last.op = "refresh"
  /\ last.n = 1
  /\ nextId = 3
  /\ \E c \in connections : connections = {c} /\ c.id = 2

\* What analyzeConnectionsForWing(X) does to the store, for every saved wing
\* X and all replies: the connections of the store stay as they are, the new
\* ones are those it returns, each from X to another saved wing, and for a
\* connected pair, in either order, no call is made and nothing is created.
AnalysisOnlyAdds ==
  \A X \in wings : \A replies \in AnalyzeReplies(X) :
    \A r \in {AnalyzeRun(Wing(X), wings, connections, nextId, replies)} :
      /\ connections \subseteq r.store
      /\ r.store \ connections = Range(r.created)
      /\ \A k \in 1..Len(r.created) :
           /\ r.created[k].wingId1 = X
           /\ r.created[k].wingId2 \in wings \ {X}
      /\ \A Y \in wings \ {X} :
           (\E c \in connections : {c.wingId1, c.wingId2} = {X, Y}) =>
             /\ \A call \in r.calls : call[1] # Y
             /\ \A k \in 1..Len(r.created) : r.created[k].wingId2 # Y

\* C28: analyzeConnectionsForWing(X) updates and deletes no connection that
\* was in the store and changes no wing; for a pair that has a connection,
\* in either order, it makes no external call and creates nothing; every
\* connection it creates has wingId1 = X and for wingId2 the id of another
\* wing that was saved when it loaded the wings.
C28_AnalysisOnlyAdds ==
  /\ []AnalysisOnlyAdds
  /\ [][last'.op = "analyze" => wings' = wings /\ connections \subseteq connections']_vars

\* C28 witness: analyzeConnectionsForWing(2) has returned the connection it
\* created from wing 2 to wing 3 while wings 1 and 2 are connected by hand:
\* that connection is as it was.
C28_Witness ==
  /\ last = Done("analyze", 1)
  /\ \E c \in connections, d \in connections :
       /\ c.id = 1 /\ c.type = MANUAL /\ {c.wingId1, c.wingId2} = {1, 2}
       /\ d.id = 2 /\ d.wingId1 = 2 /\ d.wingId2 = 3 /\ d.type = SEMANTIC

\* C21: the test for a connection of the pair and the write are not one
\* step: a call of analyzeConnectionsForWing that has passed the test and
\* waits for the score writes its connection when the score is accepted,
\* whatever the store holds by then, so that the pair has one connection
\* more than before, also when another call has connected the pair in
\* between; two calls that have both passed the test for a pair both write,
\* and a store with two connections of the pair is reached.
C21_CheckAndWriteNotAtomic ==
  \A t \in TaskIds :
    inflight[t].pc = "scoring" =>
      \A X \in {inflight[t].wing} : \A Y \in {Head(inflight[t].others)} :
        \A reply \in TaskReplies(inflight[t]) :
          RLe[<<3, 10>>, ConnectionScore[X, Y, reply]] =>
            Cardinality(Between(ScoredRun(inflight[t], connections, nextId, reply).store,
                                X, Y))
              = Cardinality(Between(connections, X, Y)) + 1

\* C21 witness: analyzeConnectionsForWing(1) and analyzeConnectionsForWing(2)
\* have both returned and the store holds two connections of kind semantic
\* for wings 1 and 2, one written by each.
C21_Witness ==
  /\ \A t \in TaskIds : inflight[t].pc = "done" /\ inflight[t].op = "analyze"
  /\ {inflight[t].wing : t \in TaskIds} = {1, 2}
  /\ \E c \in connections, d \in connections :
       /\ c.wingId1 = 1 /\ c.wingId2 = 2 /\ c.type = SEMANTIC
       /\ d.wingId1 = 2 /\ d.wingId2 = 1 /\ d.type = SEMANTIC

\* C22: when two calls of createManualConnection for the same pair of two
\* wings, in either order of the arguments, have both returned, the store
\* holds exactly one connection of the pair, with score 1 and kind manual.
C22_OneManualEdgeAfterBoth ==
  (/\ \A t \in TaskIds : inflight[t].pc = "done" /\ inflight[t].op = "manual"
   /\ \A t \in TaskIds : inflight[t].wingId1 # inflight[t].wingId2
   /\ \A t \in TaskIds, u \in TaskIds :
        {inflight[t].wingId1, inflight[t].wingId2}
          = {inflight[u].wingId1, inflight[u].wingId2})
  => \A t \in TaskIds :
       \E c \in connections :
         /\ Between(connections, inflight[t].wingId1, inflight[t].wingId2) = {c}
         /\ c.score = <<1, 1>>
         /\ c.type = MANUAL

============================================================================
